---- MODULE Spec2Model ----
(***************************************************************************)
(* Model of the offers API of src/main.py: a Flask application whose       *)
(* handlers authenticate a request (check_auth) and then read or patch the *)
(* Firestore collections 'products' and 'orders'.                          *)
(*                                                                         *)
(* Several requests are served concurrently.  A handler is not atomic:     *)
(* each call it makes on the database is one step, and steps of different  *)
(* requests interleave.  A single database call (a query, a document get,  *)
(* a document update, a batch commit) is atomic, and may fail.             *)
(***************************************************************************)
EXTENDS Integers, Sequences, FiniteSets, TLC

\* Longest productIds list a create_offers request carries.
MaxIds == 2

\* The requests in progress at the same time: two, each client sending one
\* request after the other.
Clients == {"c1", "c2"}

(***************************************************************************)
(* JSON values of a request body.                                          *)
(***************************************************************************)
JNull == [t |-> "null"]
JNum(n) == [t |-> "num", v |-> n]
JStr(s) == [t |-> "str", v |-> s]
JList(l) == [t |-> "list", v |-> l]

\* Python truthiness of a body value (`not x`).
Truthy(x) ==
    CASE x.t = "null" -> FALSE
      [] x.t = "num"  -> x.v # 0
      [] x.t = "str"  -> x.v # ""
      [] x.t = "list" -> x.v # << >>

\* isinstance(x, list)
IsList(x) == x.t = "list"

\* Whether `original_price * (1 - discount / 100)` evaluates (a number) or
\* raises TypeError (anything else that got past the truthiness check).
IsNumber(x) == x.t = "num"

(***************************************************************************)
(* Documents.  A document is a function from the names of the fields it    *)
(* has to their values; an absent field is not in its domain.              *)
(***************************************************************************)
OfferFields == {"isOffer", "offerPrice", "discountPercentage"}

\* dict.get(field, default)
Get(doc, field, default) == IF field \in DOMAIN doc THEN doc[field] ELSE default

\* A field update as Firestore applies it: the fields of `set` are written,
\* the fields of `del` (firestore.DELETE_FIELD) are removed, the rest is kept.
ApplyUpdate(doc, upd) ==
    [f \in (DOMAIN doc \cup DOMAIN upd.set) \ upd.del |->
        IF f \in DOMAIN upd.set THEN upd.set[f] ELSE doc[f]]

\* product_data = doc.to_dict(); product_data['id'] = doc.id
WithId(id, doc) == [id |-> id] @@ doc

(***************************************************************************)
(* The database: collection 'products' maps a document ID to its document, *)
(* collection 'orders' is a sequence of order documents.                   *)
(***************************************************************************)
\* Document IDs in the order in which a Firestore query streams them.
IdOrder == <<"p1", "p2", "p3", "p4", "p5", "p6", "px">>

Reverse(s) == [i \in 1 .. Len(s) |-> s[Len(s) + 1 - i]]

\* collection.stream(): the IDs of the documents of a collection.
Stream(prods) == SelectSeq(IdOrder, LAMBDA id : id \in DOMAIN prods)

\* document(id).get(): [exists, data]
DocumentGet(prods, id) ==
    IF id \in DOMAIN prods
    THEN [exists |-> TRUE, data |-> prods[id]]
    ELSE [exists |-> FALSE, data |-> << >>]

\* set(..., merge=True) in place of update(): a missing document is created.
DocumentUpdate_upsert(prods, id, upd) ==
    [ok |-> TRUE, error |-> "none",
     products |-> [p \in DOMAIN prods \cup {id} |->
                      IF p = id
                      THEN ApplyUpdate(IF id \in DOMAIN prods THEN prods[id] ELSE << >>, upd)
                      ELSE prods[p]]]

\* document(id).update(upd): fails (NotFound) when the document does not exist,
\* creates nothing.
DocumentUpdate(prods, id, upd) ==
    IF id \in DOMAIN prods
    THEN [ok |-> TRUE, error |-> "none",
          products |-> [prods EXCEPT ![id] = ApplyUpdate(prods[id], upd)]]
    ELSE [ok |-> FALSE, error |-> "NotFound", products |-> prods]

\* The writes of a batch applied in order.
RECURSIVE ApplyWrites(_, _)
ApplyWrites(prods, batch) ==
    IF batch = << >> THEN prods
    ELSE ApplyWrites(DocumentUpdate(prods, Head(batch).id, Head(batch).upd).products,
                     Tail(batch))

\* The staged updates written one by one: a failure of the call leaves the first
\* one written.
BatchCommit_partial(prods, batch, callOk) ==
    IF ~callOk
    THEN [ok |-> FALSE, error |-> "DbError",
          products |-> ApplyWrites(prods, SubSeq(batch, 1, 1))]
    ELSE [ok |-> TRUE, error |-> "none", products |-> ApplyWrites(prods, batch)]

\* batch.commit(): every staged update lands, or (a failure of the call, or a
\* staged update of a document that does not exist) none does.
BatchCommit(prods, batch, callOk) ==
    IF ~callOk THEN [ok |-> FALSE, error |-> "DbError", products |-> prods]
    ELSE IF \E i \in 1 .. Len(batch) : batch[i].id \notin DOMAIN prods
         THEN [ok |-> FALSE, error |-> "NotFound", products |-> prods]
         ELSE [ok |-> TRUE, error |-> "none", products |-> ApplyWrites(prods, batch)]

(***************************************************************************)
(* State.                                                                  *)
(***************************************************************************)
VARIABLES
    appInit,    \* firebase_admin.initialize_app(cred) succeeded
    db,         \* the module-level handle: "client" or "None"
    hashOrder,  \* the order in which this process iterates a set of IDs
    products,   \* collection 'products'
    orders,     \* collection 'orders'
    initial,    \* the two collections as they were when the process started
    lastWrites, \* per product: what the most recent successful writes to it were
    pc,         \* per client: where its request is
    endpoint,   \* per client: the handler serving its request
    header,     \* per client: the Authorization header of its request
    data,       \* per client: the JSON body of its request, once the handler read it
    loc,        \* per client: the handler's local variables
    resp,       \* per client: the response returned
    dbCalls     \* per client: database calls the request has issued

env == <<appInit, db, hashOrder, orders, initial>>
vars == <<appInit, db, hashOrder, products, orders, initial, lastWrites,
          pc, endpoint, header, data, loc, resp, dbCalls>>

Endpoints == {"get_all_products", "get_offers", "offer_suggestions",
              "create_offers", "remove_offer"}

\* Authorization headers, as the words split(" ") gives; << >> is no header.
Headers == {<< >>, <<"Bearer", "valid">>, <<"Bearer", "expired">>}

\* The IDs requests name: two that exist in every catalogue, one that never does.
ReqIds == {"p1", "p2", "px"}

\* The productIds lists: up to MaxIds of these IDs, a missing one between two
\* that exist.
ListOrder == <<"p1", "px", "p2">>

IdLists ==
    {SelectSeq(ListOrder, LAMBDA id : id \in S) :
        S \in {T \in SUBSET ReqIds : Cardinality(T) \in 1 .. MaxIds}}

ProductIdsInputs == {JNull, JStr("p1"), JList(<< >>)} \cup {JList(l) : l \in IdLists}
DiscountInputs == {JNull, JNum(0), JNum(50), JStr("50")}
ProductIdInputs == {JNull} \cup {JStr(id) : id \in ReqIds}

\* request.get_json() of a request to endpoint e.
Bodies(e) ==
    CASE e = "create_offers" ->
           [productIds : ProductIdsInputs, discountPercentage : DiscountInputs]
      [] e = "remove_offer" -> [productId : ProductIdInputs]
      [] OTHER -> {<< >>}

NoLocals == << >>
NoResponse == [status |-> 0, kind |-> "none", body |-> << >>]

\* make_response(jsonify(body), status)
Json(status, body) == [status |-> status, kind |-> "json", body |-> body]

\* What Flask answers when a handler raises: an HTML error page.
Uncaught == [status |-> 500, kind |-> "uncaught", body |-> << >>]

\* An except clause for the database client's errors only.
ExceptException_api_only(e) == e \in {"DbError", "NotFound"}

\* `except Exception as e`: the exceptions the handlers' try blocks catch.
ExceptException(e) == TRUE

\* The response of a handler in whose try block exception e was raised: the
\* message of the handler's except clause, which quotes str(e).
Failure(e, message) ==
    IF ExceptException(e)
    THEN Json(500, [error |-> message, details |-> e])
    ELSE Uncaught

(***************************************************************************)
(* check_auth                                                              *)
(***************************************************************************)
\* auth.verify_id_token(id_token): TRUE when it returns, FALSE when it raises
\* (a bad token, or no initialized Firebase app).
verify_id_token(id_token) == appInit /\ id_token = "valid"

\* check_auth without its except clause's return: a token that fails verification
\* is let through.
check_auth_unverified(h) ==
    IF h = << >>
    THEN Json(401, [error |-> "No se proporciono token de autorizacion"])
    ELSE NoResponse

\* check_auth(request): the error response, or NoResponse for (decoded, None).
check_auth(h) ==
    IF h = << >>
    THEN Json(401, [error |-> "No se proporciono token de autorizacion"])
    ELSE IF verify_id_token(h[Len(h)])
         THEN NoResponse
         ELSE Json(401, [error |-> "Token invalido o expirado", details |-> "e"])

(***************************************************************************)
(* The handlers up to their first database call.  This part of a handler   *)
(* touches nothing shared: it is one step, the arrival of the request.     *)
(***************************************************************************)
Running(at, locals) == [pc |-> at, loc |-> locals, resp |-> NoResponse]
Returned(response, locals) == [pc |-> "done", loc |-> locals, resp |-> response]

\* The handle is used inside the try block: on None it raises AttributeError.
UseHandle(message, next) ==
    IF db = "None" THEN Returned(Failure("AttributeError", message), NoLocals) ELSE next

get_all_products_begin ==
    UseHandle("Error al obtener productos", Running("query", NoLocals))

get_offers_begin ==
    UseHandle("Error al obtener ofertas", Running("query", NoLocals))

offer_suggestions_begin ==
    UseHandle("Error al generar sugerencias", Running("products", NoLocals))

\* The validation with `discount is None` for `not discount`.
InvalidOffersBody_none_only(product_ids, discount) ==
    ~Truthy(product_ids) \/ ~IsList(product_ids) \/ discount.t = "null"

\* `if not product_ids or not isinstance(product_ids, list) or not discount`
InvalidOffersBody(product_ids, discount) ==
    ~Truthy(product_ids) \/ ~IsList(product_ids) \/ ~Truthy(discount)

create_offers_begin(body) ==
    LET product_ids == body.productIds
        discount == body.discountPercentage
    IN  IF InvalidOffersBody(product_ids, discount)
        THEN Returned(Json(400, [error |-> "Datos invalidos"]), NoLocals)
        ELSE UseHandle("Error al crear ofertas",
                 Running("fetch", [product_ids |-> product_ids.v,
                                   discount |-> discount,
                                   i |-> 1,
                                   batch |-> << >>]))

remove_offer_begin(body) ==
    LET product_id == body.productId
    IN  IF ~Truthy(product_id)
        THEN Returned(Json(400, [error |-> "ID de producto no proporcionado"]), NoLocals)
        ELSE UseHandle("Error al eliminar la oferta",
                 Running("update", [product_id |-> product_id.v]))

Begin(e, body) ==
    CASE e = "get_all_products"  -> get_all_products_begin
      [] e = "get_offers"        -> get_offers_begin
      [] e = "offer_suggestions" -> offer_suggestions_begin
      [] e = "create_offers"     -> create_offers_begin(body)
      [] e = "remove_offer"      -> remove_offer_begin(body)

\* A request arrives at a free client: the handler runs check_auth, then reads and
\* validates the body, then reaches for the database handle.
Receive(c) ==
    /\ pc[c] = "idle"
    /\ \E e \in Endpoints, h \in Headers :
         \E body \in IF check_auth(h) # NoResponse THEN {<< >>} ELSE Bodies(e) :
            LET error_response == check_auth(h)
                r == IF error_response # NoResponse
                     THEN Returned(error_response, NoLocals)
                     ELSE Begin(e, body)
            IN  /\ endpoint' = [endpoint EXCEPT ![c] = e]
                /\ header' = [header EXCEPT ![c] = h]
                /\ data' = [data EXCEPT ![c] = body]
                /\ pc' = [pc EXCEPT ![c] = r.pc]
                /\ loc' = [loc EXCEPT ![c] = r.loc]
                /\ resp' = [resp EXCEPT ![c] = r.resp]
                /\ dbCalls' = [dbCalls EXCEPT ![c] = 0]
    /\ UNCHANGED <<env, products, lastWrites>>

\* The response has been sent; the client is free to send its next request.
Return(c) ==
    /\ pc[c] = "done"
    /\ pc' = [pc EXCEPT ![c] = "idle"]
    /\ endpoint' = [endpoint EXCEPT ![c] = "none"]
    /\ header' = [header EXCEPT ![c] = << >>]
    /\ data' = [data EXCEPT ![c] = << >>]
    /\ loc' = [loc EXCEPT ![c] = NoLocals]
    /\ resp' = [resp EXCEPT ![c] = NoResponse]
    /\ dbCalls' = [dbCalls EXCEPT ![c] = 0]
    /\ UNCHANGED <<env, products, lastWrites>>

\* A step of client c's handler that issues one database call and leaves the
\* handler at r.
Step(c, r) ==
    /\ pc' = [pc EXCEPT ![c] = r.pc]
    /\ loc' = [loc EXCEPT ![c] = r.loc]
    /\ resp' = [resp EXCEPT ![c] = r.resp]
    /\ dbCalls' = [dbCalls EXCEPT ![c] = @ + 1]
    /\ UNCHANGED <<env, endpoint, header, data>>

(***************************************************************************)
(* get_all_products, get_offers                                            *)
(***************************************************************************)
\* The records built from the documents with the IDs ids.
Records(prods, ids) == [i \in 1 .. Len(ids) |-> WithId(ids[i], prods[ids[i]])]

\* get_offers without its where clause.
OffersQuery_unfiltered(prods) == Stream(prods)

\* collection('products').where('isOffer', '==', True)
OffersQuery(prods) ==
    SelectSeq(Stream(prods), LAMBDA id : Get(prods[id], "isOffer", FALSE) = TRUE)

get_all_products(c) ==
    /\ pc[c] = "query" /\ endpoint[c] = "get_all_products"
    /\ \E callOk \in BOOLEAN :
         Step(c, IF callOk
                 THEN Returned(Json(200, Records(products, Stream(products))), NoLocals)
                 ELSE Returned(Failure("DbError", "Error al obtener productos"), NoLocals))
    /\ UNCHANGED <<products, lastWrites>>

get_offers(c) ==
    /\ pc[c] = "query" /\ endpoint[c] = "get_offers"
    /\ \E callOk \in BOOLEAN :
         Step(c, IF callOk
                 THEN Returned(Json(200, Records(products, OffersQuery(products))), NoLocals)
                 ELSE Returned(Failure("DbError", "Error al obtener ofertas"), NoLocals))
    /\ UNCHANGED <<products, lastWrites>>

(***************************************************************************)
(* offer_suggestions                                                       *)
(***************************************************************************)
\* `list(unsold_product_ids)[:5]` takes at most this many IDs.
SuggestionLimit == 5

\* The productId of every line item of every order; an order without 'items'
\* has none.
SoldIds(ords) ==
    UNION {{Get(ords[i], "items", << >>)[j].productId :
              j \in 1 .. Len(Get(ords[i], "items", << >>))} : i \in 1 .. Len(ords)}

\* list(ids): the IDs of a set in this process's iteration order.
ListOfSet(ids) == SelectSeq(hashOrder, LAMBDA id : id \in ids)

Take(s, n) == SubSeq(s, 1, IF Len(s) < n THEN Len(s) ELSE n)

\* offer_suggestions without the isOffer test.
NotAnOffer_unchecked(product_data) == TRUE

\* `not product_data.get('isOffer', False)`
NotAnOffer(product_data) == ~Get(product_data, "isOffer", FALSE)

SuggestionsFailure == Returned(Failure("DbError", "Error al generar sugerencias"), NoLocals)

\* all_product_ids = {doc.id for doc in db.collection('products').stream()}
offer_suggestions_products(c) ==
    /\ pc[c] = "products" /\ endpoint[c] = "offer_suggestions"
    /\ \E callOk \in BOOLEAN :
         Step(c, IF callOk
                 THEN Running("orders", [all_product_ids |-> DOMAIN products])
                 ELSE SuggestionsFailure)
    /\ UNCHANGED <<products, lastWrites>>

\* The orders are streamed, the unsold IDs computed and at most five chosen.
offer_suggestions_orders(c) ==
    /\ pc[c] = "orders" /\ endpoint[c] = "offer_suggestions"
    /\ \E callOk \in BOOLEAN :
         LET unsold_product_ids == loc[c].all_product_ids \ SoldIds(orders)
             chosen == Take(ListOfSet(unsold_product_ids), SuggestionLimit)
         IN  Step(c, IF ~callOk THEN SuggestionsFailure
                     ELSE IF chosen = << >> THEN Returned(Json(200, << >>), NoLocals)
                     ELSE Running("get", [chosen |-> chosen, suggestions |-> << >>]))
    /\ UNCHANGED <<products, lastWrites>>

\* One turn of the loop: the next chosen product is fetched again and kept when it
\* exists and is not an offer; after the last one the suggestions are returned.
offer_suggestions_get(c) ==
    /\ pc[c] = "get" /\ endpoint[c] = "offer_suggestions"
    /\ \E callOk \in BOOLEAN :
         LET product_id == Head(loc[c].chosen)
             product_doc == DocumentGet(products, product_id)
             suggestions ==
                 IF product_doc.exists /\ NotAnOffer(product_doc.data)
                 THEN Append(loc[c].suggestions, WithId(product_id, product_doc.data))
                 ELSE loc[c].suggestions
             rest == Tail(loc[c].chosen)
         IN  Step(c, IF ~callOk THEN SuggestionsFailure
                     ELSE IF rest = << >> THEN Returned(Json(200, suggestions), NoLocals)
                     ELSE Running("get", [chosen |-> rest, suggestions |-> suggestions]))
    /\ UNCHANGED <<products, lastWrites>>

(***************************************************************************)
(* create_offers                                                           *)
(***************************************************************************)
\* The discount taken off the current offer price of a product already on offer.
OfferPrice_compounded(product_data, discount) ==
    (Get(product_data, "offerPrice", Get(product_data, "price", 0)) * (100 - discount))
        \div 100

\* original_price = product_doc.to_dict().get('price', 0)
\* offer_price = original_price * (1 - discount / 100)
\* (the prices and discounts of this model make the product a whole number)
OfferPrice(product_data, discount) ==
    (Get(product_data, "price", 0) * (100 - discount)) \div 100

\* The update create_offers stages for a product.
OfferUpdate(product_data, discount) ==
    [set |-> [isOffer |-> TRUE,
              offerPrice |-> OfferPrice(product_data, discount),
              discountPercentage |-> discount],
     del |-> {}]

\* The update staged without the exists test.
Staged_unchecked(batch, product_id, product_doc, discount) ==
    Append(batch, [id |-> product_id,
                   upd |-> [set |-> [isOffer |-> TRUE,
                                     offerPrice |-> 0,
                                     discountPercentage |-> discount],
                            del |-> {}]])

\* `if product_doc.exists: ... batch.update(product_ref, {...})`
Staged(batch, product_id, product_doc, discount) ==
    IF product_doc.exists
    THEN Append(batch, [id |-> product_id, upd |-> OfferUpdate(product_doc.data, discount)])
    ELSE batch

CreateFailure(e, locals) ==
    Returned(Failure(e, "Error al crear ofertas"), locals)

\* One turn of the loop: the next listed product is fetched and, when it exists,
\* its update is staged; the price computation raises TypeError when the
\* discount is not a number.
create_offers_fetch(c) ==
    /\ pc[c] = "fetch" /\ endpoint[c] = "create_offers"
    /\ \E callOk \in BOOLEAN :
         LET product_id == loc[c].product_ids[loc[c].i]
             product_doc == DocumentGet(products, product_id)
             discount == loc[c].discount
         IN  Step(c, IF ~callOk THEN CreateFailure("DbError", loc[c])
                     ELSE IF product_doc.exists /\ ~IsNumber(discount)
                          THEN CreateFailure("TypeError", loc[c])
                     ELSE LET locals ==
                                [loc[c] EXCEPT
                                    !.i = @ + 1,
                                    !.batch = Staged(@, product_id, product_doc,
                                                     discount.v)]
                          IN  IF loc[c].i = Len(loc[c].product_ids)
                              THEN Running("commit", locals)
                              ELSE Running("fetch", locals))
    /\ UNCHANGED <<products, lastWrites>>

\* batch.commit()
create_offers_commit(c) ==
    /\ pc[c] = "commit" /\ endpoint[c] = "create_offers"
    /\ \E callOk \in BOOLEAN :
         LET batch == loc[c].batch
             r == BatchCommit(products, batch, callOk)
             written == IF r.ok THEN {batch[i].id : i \in 1 .. Len(batch)} ELSE {}
         IN  /\ products' = r.products
             /\ lastWrites' = [p \in DOMAIN lastWrites |->
                                  IF p \in written THEN "created" ELSE lastWrites[p]]
             /\ Step(c, IF r.ok
                        THEN Returned(Json(200, [success |-> TRUE]), loc[c])
                        ELSE CreateFailure(r.error, loc[c]))

(***************************************************************************)
(* remove_offer                                                            *)
(***************************************************************************)
\* remove_offer clearing the flag and leaving the two numbers.
RemovedFields_flag_only == {"isOffer"}

\* The fields the update of remove_offer deletes.
RemovedFields == {"isOffer", "offerPrice", "discountPercentage"}

RemoveOfferUpdate == [set |-> << >>, del |-> RemovedFields]

\* product_ref.update({...: firestore.DELETE_FIELD})
remove_offer_update(c) ==
    /\ pc[c] = "update" /\ endpoint[c] = "remove_offer"
    /\ \E callOk \in BOOLEAN :
         LET product_id == loc[c].product_id
             r == IF callOk
                  THEN DocumentUpdate(products, product_id, RemoveOfferUpdate)
                  ELSE [ok |-> FALSE, error |-> "DbError", products |-> products]
         IN  /\ products' = r.products
             /\ lastWrites' = [p \in DOMAIN lastWrites |->
                                  IF r.ok /\ p = product_id
                                  THEN (IF lastWrites[p] = "created"
                                        THEN "created_removed" ELSE "other")
                                  ELSE lastWrites[p]]
             /\ Step(c, IF r.ok
                        THEN Returned(Json(200, [success |-> TRUE]), loc[c])
                        ELSE Returned(Failure(r.error, "Error al eliminar la oferta"),
                                      loc[c]))

(***************************************************************************)
(* Start of the process, and the specifications.                           *)
(***************************************************************************)
\* The outcomes of the initialization block: all of it succeeded; the app was
\* initialized and firestore.client() raised; or the credentials or
\* initialize_app raised.  On an exception db is None.
Initializations ==
    {[appInit |-> TRUE, db |-> "client"],
     [appInit |-> TRUE, db |-> "None"],
     [appInit |-> FALSE, db |-> "None"]}

Plain == [price |-> 100]
OnOffer == [price |-> 100, isOffer |-> TRUE, offerPrice |-> 80, discountPercentage |-> 20]

\* Two products: p1 with a price and on offer; p2 without a price, no offer.
SmallCatalogues == {[p1 |-> OnOffer, p2 |-> [name |-> "sin precio"]]}

\* Six products, more than offer_suggestions returns.
LargeCatalogues ==
    {[p1 |-> OnOffer, p2 |-> Plain, p3 |-> Plain, p4 |-> Plain, p5 |-> Plain,
      p6 |-> Plain]}

SmallOrders == {<<[items |-> <<[productId |-> "px"]>>], [note |-> "sin items"]>>}
LargeOrders == {<<[items |-> <<[productId |-> "px"]>>]>>}

HashOrders == {IdOrder, Reverse(IdOrder)}

InitWith(catalogues, orderings, orderSets) ==
    /\ \E i \in Initializations : appInit = i.appInit /\ db = i.db
    /\ hashOrder \in orderings
    /\ products \in catalogues
    /\ orders \in orderSets
    /\ initial = [products |-> products, orders |-> orders]
    /\ lastWrites = [p \in DOMAIN products |-> "other"]
    /\ pc = [c \in Clients |-> "idle"]
    /\ endpoint = [c \in Clients |-> "none"]
    /\ header = [c \in Clients |-> << >>]
    /\ data = [c \in Clients |-> << >>]
    /\ loc = [c \in Clients |-> NoLocals]
    /\ resp = [c \in Clients |-> NoResponse]
    /\ dbCalls = [c \in Clients |-> 0]

Init == InitWith(SmallCatalogues, {IdOrder}, SmallOrders)

InitSuggestions == InitWith(LargeCatalogues, HashOrders, LargeOrders)

Next ==
    \E c \in Clients :
        \/ Receive(c)
        \/ Return(c)
        \/ get_all_products(c)
        \/ get_offers(c)
        \/ offer_suggestions_products(c)
        \/ offer_suggestions_orders(c)
        \/ offer_suggestions_get(c)
        \/ create_offers_fetch(c)
        \/ create_offers_commit(c)
        \/ remove_offer_update(c)

Spec == Init /\ [][Next]_vars

SpecSuggestions == InitSuggestions /\ [][Next]_vars

(***************************************************************************)
(* Properties.                                                             *)
(***************************************************************************)
\* The request of client c has been received and not yet returned to the client.
InService(c) == pc[c] # "idle"

\* The token of the request is missing or its verification raises.
AuthFails(h) == h = << >> \/ ~(appInit /\ h[Len(h)] = "valid")

\* Client c takes a step of its handler.
Moves(c) == pc'[c] # pc[c] \/ dbCalls'[c] # dbCalls[c]

OfferFieldsOf(doc) == DOMAIN doc \cap OfferFields

\* The fields of a document other than the three offer fields.
NonOfferPart(doc) == [f \in DOMAIN doc \ OfferFields |-> doc[f]]

\* ---------------------------------------------------------------- C1
C1_Unauthorized ==
    \A c \in Clients :
        InService(c) /\ AuthFails(header[c]) =>
            /\ pc[c] = "done"
            /\ resp[c].status = 401
            /\ resp[c].kind = "json"
            /\ "error" \in DOMAIN resp[c].body
            /\ dbCalls[c] = 0

C1_NoEffect ==
    \A c \in Clients :
        Moves(c) /\ AuthFails(header'[c]) /\ pc'[c] # "idle" =>
            /\ pc[c] = "idle"
            /\ products' = products
            /\ orders' = orders

\* C1: on each of the five protected endpoints a request without an
\* Authorization header, or whose token verification raises, is answered 401
\* with an error body, issues no database call and leaves the database as it was.
C1_AuthFailureShortCircuits == [] C1_Unauthorized /\ [][C1_NoEffect]_vars

\* Both kinds of failure, on a read and on a write endpoint, with the database up.
C1_Witness ==
    /\ db = "client"
    /\ pc["c1"] = "done" /\ endpoint["c1"] = "create_offers"
    /\ header["c1"] = << >> /\ resp["c1"].status = 401
    /\ pc["c2"] = "done" /\ endpoint["c2"] = "get_offers"
    /\ header["c2"] = <<"Bearer", "expired">> /\ resp["c2"].status = 401

\* ---------------------------------------------------------------- C2
\* C2: in every reachable state, under any interleaving of create_offers and
\* remove_offer requests, each product has all three of isOffer, offerPrice,
\* discountPercentage or none of them.
C2_OfferTrio ==
    \A p \in DOMAIN products :
        OfferFieldsOf(products[p]) = {} \/ OfferFieldsOf(products[p]) = OfferFields

\* The product that started as an offer has lost the fields, the other got them.
C2_Witness ==
    /\ OfferFieldsOf(products["p1"]) = {}
    /\ OfferFieldsOf(products["p2"]) = OfferFields
    /\ \E c \in Clients : pc[c] = "commit"

\* ---------------------------------------------------------------- C3
\* C3: a successful offer_suggestions response holds at most 5 records, none of
\* them with isOffer true, also while create_offers and remove_offer requests
\* run concurrently.
C3_SuggestionsBounded ==
    \A c \in Clients :
        pc[c] = "done" /\ endpoint[c] = "offer_suggestions" /\ resp[c].status = 200 =>
            /\ Len(resp[c].body) <= 5
            /\ \A i \in 1 .. Len(resp[c].body) :
                  Get(resp[c].body[i], "isOffer", FALSE) # TRUE

\* Six unsold products, five suggested, and one of the suggested products was made
\* an offer by a concurrent create_offers after it had been read.
C3_Witness ==
    \E c \in Clients :
        /\ pc[c] = "done" /\ endpoint[c] = "offer_suggestions" /\ resp[c].status = 200
        /\ Cardinality(DOMAIN products \ SoldIds(orders)) = 6
        /\ Len(resp[c].body) = 5
        /\ \E i \in 1 .. 5 :
              Get(products[resp[c].body[i].id], "isOffer", FALSE) = TRUE

\* ---------------------------------------------------------------- C4
\* No field of a product but the three offer fields is ever written, so what P
\* was before create_offers, offer fields apart, is what it was at the start.
C4_Restored ==
    \A p \in DOMAIN products :
        lastWrites[p] = "created_removed" =>
            products[p] = NonOfferPart(initial.products[p])

C4_NotListed ==
    \A c \in Clients :
        Moves(c) /\ endpoint[c] = "get_offers" /\ resp'[c].status = 200 =>
            \A p \in DOMAIN products :
                lastWrites[p] = "created_removed" =>
                    \A i \in 1 .. Len(resp'[c].body) : resp'[c].body[i].id # p

\* C4: when the last two writes to a product P are a successful create_offers
\* and then a successful remove_offer, P has none of the three offer fields and
\* its other fields are as before, and a get_offers made then does not list P.
C4_RemoveAfterCreate == [] C4_Restored /\ [][C4_NotListed]_vars

\* Both products went through create_offers then remove_offer, and a get_offers
\* answered with no product at all.
C4_Witness ==
    /\ lastWrites["p1"] = "created_removed"
    /\ lastWrites["p2"] = "created_removed"
    /\ \E c \in Clients :
          /\ pc[c] = "done" /\ endpoint[c] = "get_offers"
          /\ resp[c].status = 200 /\ resp[c].body = << >>

\* ---------------------------------------------------------------- C5
\* The IDs a sequence of IDs lists.
Listed(ids) == {ids[i] : i \in 1 .. Len(ids)}

\* doc is an offer at discount d computed from its own price.
IsOfferAt(doc, d) ==
    /\ OfferFieldsOf(doc) = OfferFields
    /\ doc.isOffer = TRUE
    /\ doc.discountPercentage = d
    /\ doc.offerPrice * 100 = Get(doc, "price", 0) * (100 - d)

\* Client c's create_offers commits with success.
Commits(c) ==
    /\ endpoint[c] = "create_offers" /\ pc[c] = "commit"
    /\ pc'[c] = "done" /\ resp'[c].status = 200

C5_Applied ==
    \A c \in Clients :
        Commits(c) =>
            LET ids == Listed(loc[c].product_ids) \cap DOMAIN products
                d == loc[c].discount.v
            IN  /\ \A p \in ids : IsOfferAt(products'[p], d)
                /\ (\A p \in ids : IsOfferAt(products[p], d)) => products' = products

\* C5: the commit of a successful create_offers with discount d leaves every
\* listed product that exists with isOffer = true, discountPercentage = d and
\* offerPrice = price * (1 - d/100), price being its stored price or 0, whatever
\* offer the product had before; a request whose result is already in place
\* changes nothing.
C5_OfferFromPrice == [][C5_Applied]_vars

\* A request at 50 over the product on offer at 20 (price 100) and the product
\* without a price has succeeded.
C5_Witness ==
    \E c \in Clients :
        /\ pc[c] = "done" /\ endpoint[c] = "create_offers" /\ resp[c].status = 200
        /\ loc[c].product_ids = <<"p1", "p2">> /\ loc[c].discount = JNum(50)
        /\ products["p1"].offerPrice = 50 /\ products["p1"].price = 100
        /\ products["p2"].offerPrice = 0 /\ "price" \notin DOMAIN products["p2"]

\* ---------------------------------------------------------------- C6
\* The request of client c is a create_offers with a valid body: a non-empty
\* list and a discount that is a number other than 0.
ValidCreate(c) ==
    /\ endpoint[c] = "create_offers" /\ ~AuthFails(header[c])
    /\ "productIds" \in DOMAIN data[c]
    /\ data[c].productIds.t = "list" /\ data[c].productIds.v # << >>
    /\ data[c].discountPercentage.t = "num" /\ data[c].discountPercentage.v # 0

C6_Succeeds ==
    /\ DOMAIN products = DOMAIN initial.products
    /\ \A c \in Clients :
          ValidCreate(c) /\ pc[c] = "done" /\ db = "client" =>
              \/ resp[c].status = 200 /\ resp[c].body.success = TRUE
              \/ resp[c].status = 500 /\ resp[c].body.details = "DbError"

C6_ExistingUpdated ==
    \A c \in Clients :
        Commits(c) =>
            /\ DOMAIN products' = DOMAIN products
            /\ \A p \in DOMAIN products :
                  IF p \in Listed(data[c].productIds.v)
                  THEN /\ Get(products'[p], "isOffer", FALSE) = TRUE
                       /\ Get(products'[p], "discountPercentage", 0)
                              = data[c].discountPercentage.v
                  ELSE products'[p] = products[p]

\* C6: with the database handle in place, a create_offers request with a valid
\* token, list and discount succeeds (200, success = true) unless a database call
\* itself fails, also when listed
\* IDs, or all of them, are not in the collection: no document is created for a
\* missing ID, no error comes from it, and every listed product that exists gets
\* its update.
C6_MissingIdsSkipped == [] C6_Succeeds /\ [][C6_ExistingUpdated]_vars

\* One request naming only the missing ID has succeeded after its commit, and so
\* has one naming an existing product, the missing ID and another product.
C6_Witness ==
    /\ pc["c1"] = "done" /\ ValidCreate("c1") /\ resp["c1"].status = 200
    /\ data["c1"].productIds.v = <<"px">> /\ dbCalls["c1"] = 2
    /\ pc["c2"] = "done" /\ ValidCreate("c2") /\ resp["c2"].status = 200
    /\ data["c2"].productIds.v = <<"px", "p2">>
    /\ OfferFieldsOf(products["p2"]) = OfferFields
    /\ "px" \notin DOMAIN products

\* ---------------------------------------------------------------- C7
\* productIds missing, not an array or empty; or discountPercentage missing or 0.
RejectedBody(body) ==
    \/ body.productIds.t = "null"
    \/ body.productIds.t # "list"
    \/ body.productIds.v = << >>
    \/ body.discountPercentage.t = "null"
    \/ body.discountPercentage = JNum(0)

\* C7: an authenticated create_offers request whose productIds is missing, not
\* an array or empty, or whose discountPercentage is missing or 0, is answered
\* 400 without a database call.
C7_InvalidBodyRejected ==
    \A c \in Clients :
        /\ InService(c) /\ endpoint[c] = "create_offers" /\ ~AuthFails(header[c])
        /\ RejectedBody(data[c])
        => /\ pc[c] = "done"
           /\ resp[c].status = 400
           /\ dbCalls[c] = 0

\* A discount of 0 with a good list, and an empty list with a good discount.
C7_Witness ==
    /\ pc["c1"] = "done" /\ endpoint["c1"] = "create_offers" /\ resp["c1"].status = 400
    /\ data["c1"] = [productIds |-> JList(<<"p1">>), discountPercentage |-> JNum(0)]
    /\ pc["c2"] = "done" /\ endpoint["c2"] = "create_offers" /\ resp["c2"].status = 400
    /\ data["c2"] = [productIds |-> JList(<< >>), discountPercentage |-> JNum(50)]

\* ---------------------------------------------------------------- C8
\* The collection with every update of the batch applied to its document.
AllApplied(prods, batch) ==
    [p \in DOMAIN prods |->
        IF \E i \in 1 .. Len(batch) : batch[i].id = p
        THEN ApplyUpdate(prods[p],
                         batch[CHOOSE i \in 1 .. Len(batch) : batch[i].id = p].upd)
        ELSE prods[p]]

C8_Step ==
    \A c \in Clients :
        Moves(c) /\ endpoint[c] = "create_offers" =>
            /\ resp'[c].status = 500 => products' = products
            /\ resp'[c].status = 200 => products' = AllApplied(products, loc[c].batch)
            /\ products' # products => Commits(c)

\* C8: a step of a create_offers request changes the products only when it is
\* the commit that ends the request with success, and then every staged update
\* is applied; a request that ends with 500 has changed nothing.
C8_AllOrNothing == [][C8_Step]_vars

\* A commit of two staged updates has failed, and the two products are as they
\* were.
C8_Witness ==
    \E c \in Clients :
        /\ pc[c] = "done" /\ endpoint[c] = "create_offers"
        /\ resp[c].status = 500 /\ resp[c].body.details = "DbError"
        /\ Len(loc[c].batch) = 2 /\ loc[c].i = 3
        /\ products = initial.products

\* ---------------------------------------------------------------- C9
\* The body of client c's request fails the validation of its handler.
FailsValidation(c) ==
    \/ endpoint[c] = "create_offers" /\ RejectedBody(data[c])
    \/ endpoint[c] = "remove_offer" /\ data[c].productId.t = "null"

\* C9 as claimed: with a null handle every authenticated request is answered
\* with a 500 JSON error.
C9_NullHandleAlways500 ==
    \A c \in Clients :
        db = "None" /\ pc[c] = "done" /\ ~AuthFails(header[c]) =>
            resp[c].status = 500 /\ resp[c].kind = "json"

\* C9 amended: with a null handle every authenticated request is answered at
\* once, without a database call and with a JSON error: 400 when it is a
\* create_offers or remove_offer request whose body fails validation, 500
\* otherwise; no handler ends with an uncaught exception.
C9_NullHandleJsonError ==
    \A c \in Clients :
        db = "None" /\ InService(c) /\ ~AuthFails(header[c]) =>
            /\ pc[c] = "done"
            /\ resp[c].kind = "json"
            /\ "error" \in DOMAIN resp[c].body
            /\ resp[c].status = IF FailsValidation(c) THEN 400 ELSE 500
            /\ dbCalls[c] = 0

\* With a null handle, a valid create_offers and a get_offers have got their 500.
C9_Witness ==
    /\ db = "None"
    /\ pc["c1"] = "done" /\ ValidCreate("c1") /\ resp["c1"].status = 500
    /\ pc["c2"] = "done" /\ endpoint["c2"] = "get_offers"
    /\ ~AuthFails(header["c2"]) /\ resp["c2"].status = 500

\* ---------------------------------------------------------------- C10
C10_Frame ==
    /\ DOMAIN products = DOMAIN initial.products
    /\ orders = initial.orders
    /\ \A p \in DOMAIN products :
          NonOfferPart(products[p]) = NonOfferPart(initial.products[p])
    /\ \A c \in Clients :
          /\ pc[c] = "done" /\ endpoint[c] = "remove_offer" /\ resp[c].status # 400
          /\ ~AuthFails(header[c]) /\ data[c].productId.v \notin DOMAIN initial.products
          => resp[c].status = 500

C10_ReadsOnly ==
    \A c \in Clients :
        Moves(c) /\ (endpoint[c] \in {"get_all_products", "get_offers", "offer_suggestions"}
                     \/ endpoint'[c] \in {"get_all_products", "get_offers",
                                          "offer_suggestions"})
        => products' = products /\ orders' = orders

\* C10: the product IDs and the orders stay what they were at the start, no
\* field of a product other than isOffer, offerPrice, discountPercentage changes,
\* a remove_offer on an ID that does not exist ends with 500, and no step of
\* get_all_products, get_offers or offer_suggestions changes the database.
C10_NothingCreatedOrDeleted == [] C10_Frame /\ [][C10_ReadsOnly]_vars

\* A remove_offer on the missing ID has failed on the database's answer, after
\* writes by create_offers and remove_offer to the two products.
C10_Witness ==
    /\ \E c \in Clients :
          /\ pc[c] = "done" /\ endpoint[c] = "remove_offer"
          /\ resp[c].status = 500 /\ resp[c].body.details = "NotFound"
          /\ data[c].productId = JStr("px")
    /\ lastWrites["p1"] = "created_removed"
    /\ lastWrites["p2"] = "created"

====
